---------------------------- MODULE Spec2Model ----------------------------
(***************************************************************************)
(* Training status reports (src/main.py).                                  *)
(*                                                                         *)
(* main() loads a roster and runs task1, task2 and task3 in that order.    *)
(* Every task resolves, per person, the most recent completion of each     *)
(* training and writes one JSON file when its loop over the roster ends.   *)
(*                                                                         *)
(* Representation of Python values:                                        *)
(*   str of a date field  the sequence of its characters, each character   *)
(*                        its Unicode code point ("07/01/2023" is          *)
(*                        <<48, 55, 47, 48, 49, 47, 50, 48, 50, 51>>), so  *)
(*                        that strptime is modelled by what it does to the *)
(*                        text                                             *)
(*   other str            a TLA+ string (training and person names)        *)
(*   None                 <<>>, and a value v that may be None is <<v>>    *)
(*   datetime             its proleptic Gregorian ordinal (toordinal());   *)
(*                        every datetime of the program is at midnight     *)
(*   timedelta(days=n)    n                                                *)
(*   dict                 the sequence of its items [key, value] in        *)
(*                        insertion order                                  *)
(*   a call that may raise                                                 *)
(*                        [raises |-> FALSE, value |-> the result], or     *)
(*                        [raises |-> TRUE, value |-> None, error |-> the  *)
(*                        name of the exception]                           *)
(***************************************************************************)
EXTENDS Integers, Sequences, FiniteSets, TLC

VARIABLES
    data,   \* main: the roster returned by load_data
    pc,     \* the statement of main about to run, or the state of a direct call
    files,  \* the output files written so far: file name -> None or <<content>>
    args,   \* the arguments of a direct call of one function
    ret     \* what that call returned or raised

vars == <<data, pc, files, args, ret>>

None == <<>>

Some(v) == <<v>>

Raise == [raises |-> TRUE, value |-> None, error |-> "ValueError"]

OverflowError == [raises |-> TRUE, value |-> None, error |-> "OverflowError"]

Return(v) == [raises |-> FALSE, value |-> v]

ToSet(s) == {s[i] : i \in DOMAIN s}

(***************************************************************************)
(* Python dict, insertion ordered.                                         *)
(***************************************************************************)
DictHas(d, k) == \E i \in DOMAIN d : d[i].key = k

DictGet(d, k) == d[CHOOSE i \in DOMAIN d : d[i].key = k].value

DictSet(d, k, v) ==
    IF DictHas(d, k)
    THEN [i \in DOMAIN d |-> IF d[i].key = k THEN [key |-> k, value |-> v] ELSE d[i]]
    ELSE Append(d, [key |-> k, value |-> v])

DictKeys(d) == {d[i].key : i \in DOMAIN d}

(***************************************************************************)
(* datetime: the date arithmetic of the standard library.  A datetime is   *)
(* a date from 0001-01-01 (ordinal 1) to 9999-12-31 (ordinal 3652059);     *)
(* the constructor raises OverflowError for a field that does not fit a C  *)
(* int and ValueError for fields that name no such date, and an addition   *)
(* that leaves the range raises OverflowError.                             *)
(***************************************************************************)
INT_MAX == 2147483647

INT_MIN == -INT_MAX - 1

MINYEAR == 1

MAXYEAR == 9999

is_leap(year) == year % 4 = 0 /\ (year % 100 # 0 \/ year % 400 = 0)

days_in_month(year, month) ==
    IF month = 2 THEN (IF is_leap(year) THEN 29 ELSE 28)
    ELSE IF month \in {4, 6, 9, 11} THEN 30 ELSE 31

days_before_year(year) ==
    LET y == year - 1 IN y * 365 + (y \div 4) - (y \div 100) + (y \div 400)

RECURSIVE days_before_month(_, _)
days_before_month(year, month) ==
    IF month = 1 THEN 0
    ELSE days_before_month(year, month - 1) + days_in_month(year, month - 1)

ymd2ord(year, month, day) ==
    days_before_year(year) + days_before_month(year, month) + day

MaxOrdinal == ymd2ord(MAXYEAR, 12, 31)

datetime(year, month, day) ==
    IF \E field \in {year, month, day} : field < INT_MIN \/ field > INT_MAX
    THEN OverflowError
    ELSE IF year < MINYEAR \/ year > MAXYEAR THEN Raise
    ELSE IF month < 1 \/ month > 12 THEN Raise
    ELSE IF day < 1 \/ day > days_in_month(year, month) THEN Raise
    ELSE Return(ymd2ord(year, month, day))

timedelta(days) == days

\* datetime + timedelta
Plus(date, delta) ==
    IF date + delta < 1 \/ date + delta > MaxOrdinal THEN OverflowError
    ELSE Return(date + delta)

(***************************************************************************)
(* datetime.strptime(s, "%m/%d/%Y").  The format compiles to the regular   *)
(* expression                                                              *)
(*   (1[0-2]|0[1-9]|[1-9])/(3[01]|[12]\d|0[1-9]|[1-9]| [1-9])/(\d\d\d\d)   *)
(* which must match the whole string; int() of the fields must then name a *)
(* date.  Anything else raises ValueError.  For a str pattern \d is any    *)
(* Unicode decimal digit (category Nd), and int() reads them all: the Nd   *)
(* characters come in runs of ten, zero to nine, listed here by their      *)
(* zeros (Unicode 14.0, the tables of Python 3.11); [0-9] and the like are *)
(* the ASCII digits only.                                                  *)
(***************************************************************************)
DigitZeros ==
    {48, 1632, 1776, 1984, 2406, 2534, 2662, 2790, 2918, 3046, 3174,
     3302, 3430, 3558, 3664, 3792, 3872, 4160, 4240, 6112, 6160, 6470,
     6608, 6784, 6800, 6992, 7088, 7232, 7248, 42528, 43216, 43264,
     43472, 43504, 43600, 44016, 65296, 66720, 68912, 69734, 69872,
     69942, 70096, 70384, 70736, 70864, 71248, 71360, 71472, 71904,
     72016, 72784, 73040, 73120, 92768, 92864, 93008, 120782, 120792,
     120802, 120812, 120822, 123200, 123632, 125264, 130032}

Digits == UNION {z..(z + 9) : z \in DigitZeros}

DigitValue(c) == c - (CHOOSE z \in DigitZeros : z <= c /\ c <= z + 9)

\* The ASCII digit of value n, and the characters "/" and " ".
Char(n) == 48 + n

Slash == 47

Space == 32

RECURSIVE NumberValue(_)
NumberValue(s) ==
    IF s = <<>> THEN 0
    ELSE 10 * NumberValue(SubSeq(s, 1, Len(s) - 1)) + DigitValue(s[Len(s)])

MatchesMonth(s) ==
    \/ Len(s) = 2 /\ s[1] = Char(1) /\ s[2] \in Char(0)..Char(2)
    \/ Len(s) = 2 /\ s[1] = Char(0) /\ s[2] \in Char(1)..Char(9)
    \/ Len(s) = 1 /\ s[1] \in Char(1)..Char(9)

MatchesDay(s) ==
    \/ Len(s) = 2 /\ s[1] = Char(3) /\ s[2] \in Char(0)..Char(1)
    \/ Len(s) = 2 /\ s[1] \in Char(1)..Char(2) /\ s[2] \in Digits
    \/ Len(s) = 2 /\ s[1] = Char(0) /\ s[2] \in Char(1)..Char(9)
    \/ Len(s) = 1 /\ s[1] \in Char(1)..Char(9)
    \/ Len(s) = 2 /\ s[1] = Space /\ s[2] \in Char(1)..Char(9)

MatchesYear(s) == Len(s) = 4 /\ \A i \in 1..4 : s[i] \in Digits

DayValue(s) == IF s[1] = Space THEN DigitValue(s[2]) ELSE NumberValue(s)

Slashes(s) == {i \in DOMAIN s : s[i] = Slash}

Min(S) == CHOOSE x \in S : \A y \in S : x <= y

strptime(s) ==
    IF Cardinality(Slashes(s)) < 2 THEN Raise
    ELSE LET i == Min(Slashes(s))
             j == Min(Slashes(s) \ {i})
             m == SubSeq(s, 1, i - 1)
             d == SubSeq(s, i + 1, j - 1)
             Y == SubSeq(s, j + 1, Len(s))
         IN  IF ~(MatchesMonth(m) /\ MatchesDay(d) /\ MatchesYear(Y)) THEN Raise
             ELSE datetime(NumberValue(Y), NumberValue(m), DayValue(d))

(***************************************************************************)
(* get_most_recent_completions: one scan of the list; an entry is replaced *)
(* only by a record whose parsed date is strictly later.                   *)
(***************************************************************************)
\* Faulty variant: the expiry of the record is lost.
Expires_Dropped(completion) == None

Expires(completion) ==
    IF "expires" \in DOMAIN completion THEN completion.expires ELSE None

\* Faulty variants of the replacement condition: keeping the oldest record,
\* replacing on a tie, replacing always.
IsMoreRecent_Older(most_recent, training_name, completion_date) ==
    \/ ~DictHas(most_recent, training_name)
    \/ completion_date < DictGet(most_recent, training_name).date

IsMoreRecent_OrEqual(most_recent, training_name, completion_date) ==
    \/ ~DictHas(most_recent, training_name)
    \/ completion_date >= DictGet(most_recent, training_name).date

IsMoreRecent_Always(most_recent, training_name, completion_date) == TRUE

IsMoreRecent(most_recent, training_name, completion_date) ==
    \/ ~DictHas(most_recent, training_name)
    \/ completion_date > DictGet(most_recent, training_name).date

RECURSIVE ScanCompletions(_, _, _)
ScanCompletions(completions, i, most_recent) ==
    IF i > Len(completions) THEN Return(most_recent)
    ELSE LET completion == completions[i]
             training_name == completion.name
             completion_date == strptime(completion.timestamp)
         IN  IF completion_date.raises THEN completion_date
             ELSE IF IsMoreRecent(most_recent, training_name, completion_date.value)
                  THEN ScanCompletions(completions, i + 1,
                           DictSet(most_recent, training_name,
                                   [timestamp |-> completion.timestamp,
                                    expires |-> Expires(completion),
                                    date |-> completion_date.value]))
                  ELSE ScanCompletions(completions, i + 1, most_recent)

get_most_recent_completions(completions) == ScanCompletions(completions, 1, <<>>)

(***************************************************************************)
(* task1: the Counter of training names over the persons' resolved         *)
(* completions, then the list of {training, count} in first-seen order.    *)
(***************************************************************************)
RECURSIVE CountKeys(_, _, _)
CountKeys(most_recent_completions, k, training_counts) ==
    IF k > Len(most_recent_completions) THEN training_counts
    ELSE LET training_name == most_recent_completions[k].key
             count == IF DictHas(training_counts, training_name)
                      THEN DictGet(training_counts, training_name) ELSE 0
         IN  CountKeys(most_recent_completions, k + 1,
                       DictSet(training_counts, training_name, count + 1))

\* Faulty variant: every record is counted, not every resolved training.
RECURSIVE Task1Loop_PerRecord(_, _, _)
Task1Loop_PerRecord(training_data, p, training_counts) ==
    IF p > Len(training_data) THEN Return(training_counts)
    ELSE LET completions == training_data[p].completions
         IN  IF get_most_recent_completions(completions).raises THEN get_most_recent_completions(completions)
             ELSE Task1Loop_PerRecord(training_data, p + 1,
                      CountKeys([i \in DOMAIN completions |->
                                    [key |-> completions[i].name]],
                                1, training_counts))

RECURSIVE Task1Loop(_, _, _)
Task1Loop(training_data, p, training_counts) ==
    IF p > Len(training_data) THEN Return(training_counts)
    ELSE LET most_recent_completions ==
                 get_most_recent_completions(training_data[p].completions)
         IN  IF most_recent_completions.raises THEN most_recent_completions
             ELSE Task1Loop(training_data, p + 1,
                      CountKeys(most_recent_completions.value, 1, training_counts))

task1(training_data) ==
    LET training_counts == Task1Loop(training_data, 1, <<>>)
    IN  IF training_counts.raises THEN training_counts
        ELSE Return([i \in DOMAIN training_counts.value |->
                        [training |-> training_counts.value[i].key,
                         count |-> training_counts.value[i].value]])

(***************************************************************************)
(* task2: the persons whose most recent completion of a relevant training  *)
(* is dated within fiscal year 2024.                                       *)
(***************************************************************************)
\* Faulty variant: June 30 is left out of the fiscal year.
is_in_fiscal_year_BeforeEnd(completion_date, fiscal_year) ==
    LET date == strptime(completion_date)
        fiscal_year_start == datetime(fiscal_year - 1, 7, 1)
        fiscal_year_end == datetime(fiscal_year, 6, 30)
    IN  IF date.raises THEN date
        ELSE IF fiscal_year_start.raises THEN fiscal_year_start
        ELSE IF fiscal_year_end.raises THEN fiscal_year_end
        ELSE Return(/\ fiscal_year_start.value <= date.value
                    /\ date.value < fiscal_year_end.value)

is_in_fiscal_year(completion_date, fiscal_year) ==
    LET date == strptime(completion_date)
        fiscal_year_start == datetime(fiscal_year - 1, 7, 1)
        fiscal_year_end == datetime(fiscal_year, 6, 30)
    IN  IF date.raises THEN date
        ELSE IF fiscal_year_start.raises THEN fiscal_year_start
        ELSE IF fiscal_year_end.raises THEN fiscal_year_end
        ELSE Return(/\ fiscal_year_start.value <= date.value
                    /\ date.value <= fiscal_year_end.value)

fiscal_year == 2024

relevant_trainings ==
    <<"Electrical Safety for Labs", "X-Ray Safety", "Laboratory Safety Training">>

RECURSIVE Task2Keys(_, _, _, _)
Task2Keys(person, most_recent_completions, k, training_results) ==
    IF k > Len(most_recent_completions) THEN Return(training_results)
    ELSE LET training_name == most_recent_completions[k].key
             completion == most_recent_completions[k].value
         IN  IF training_name \notin ToSet(relevant_trainings)
             THEN Task2Keys(person, most_recent_completions, k + 1, training_results)
             ELSE LET in_year == is_in_fiscal_year(completion.timestamp, fiscal_year)
                  IN  IF in_year.raises THEN in_year
                      ELSE Task2Keys(person, most_recent_completions, k + 1,
                               IF in_year.value
                               THEN DictSet(training_results, training_name,
                                        Append(DictGet(training_results, training_name),
                                               person.name))
                               ELSE training_results)

RECURSIVE Task2Loop(_, _, _)
Task2Loop(training_data, p, training_results) ==
    IF p > Len(training_data) THEN Return(training_results)
    ELSE LET most_recent_completions ==
                 get_most_recent_completions(training_data[p].completions)
         IN  IF most_recent_completions.raises THEN most_recent_completions
             ELSE LET next == Task2Keys(training_data[p],
                                        most_recent_completions.value, 1,
                                        training_results)
                  IN  IF next.raises THEN next
                      ELSE Task2Loop(training_data, p + 1, next.value)

task2(training_data) ==
    Task2Loop(training_data, 1,
              [i \in DOMAIN relevant_trainings |->
                  [key |-> relevant_trainings[i], value |-> <<>>]])

(***************************************************************************)
(* task3: per person, the most recent completions whose expiry is before   *)
(* the reference date or within 30 days after it.                          *)
(***************************************************************************)
\* Faulty variants: the 30th day is left out of the window; an expiry that
\* does not parse is taken for one without status.
check_expiry_Before30(expiration_date, reference_date) ==
    IF expiration_date = None THEN Return(None)
    ELSE LET expiration == strptime(expiration_date[1])
             horizon == Plus(reference_date, timedelta(30))
         IN  IF expiration.raises THEN expiration
             ELSE IF expiration.value < reference_date THEN Return(Some("expired"))
             ELSE IF horizon.raises THEN horizon
             ELSE IF expiration.value < horizon.value
                  THEN Return(Some("expires soon"))
             ELSE Return(None)

check_expiry_Lenient(expiration_date, reference_date) ==
    IF expiration_date = None THEN Return(None)
    ELSE LET expiration == strptime(expiration_date[1])
             horizon == Plus(reference_date, timedelta(30))
         IN  IF expiration.raises THEN Return(None)
             ELSE IF expiration.value < reference_date THEN Return(Some("expired"))
             ELSE IF horizon.raises THEN horizon
             ELSE IF expiration.value <= horizon.value
                  THEN Return(Some("expires soon"))
             ELSE Return(None)

check_expiry(expiration_date, reference_date) ==
    IF expiration_date = None THEN Return(None)
    ELSE LET expiration == strptime(expiration_date[1])
             horizon == Plus(reference_date, timedelta(30))
         IN  IF expiration.raises THEN expiration
             ELSE IF expiration.value < reference_date THEN Return(Some("expired"))
             ELSE IF horizon.raises THEN horizon
             ELSE IF expiration.value <= horizon.value
                  THEN Return(Some("expires soon"))
             ELSE Return(None)

reference_date == datetime(2023, 10, 1).value

Truthy(v) == v # None /\ v[1] # <<>>

RECURSIVE Task3Keys(_, _, _)
Task3Keys(most_recent_completions, k, expiring_trainings) ==
    IF k > Len(most_recent_completions) THEN Return(expiring_trainings)
    ELSE LET training_name == most_recent_completions[k].key
             completion == most_recent_completions[k].value
         IN  IF ~Truthy(completion.expires)
             THEN Task3Keys(most_recent_completions, k + 1, expiring_trainings)
             ELSE LET status == check_expiry(completion.expires, reference_date)
                  IN  IF status.raises THEN status
                      ELSE Task3Keys(most_recent_completions, k + 1,
                               IF status.value # None
                               THEN Append(expiring_trainings,
                                           [training |-> training_name,
                                            status |-> status.value[1]])
                               ELSE expiring_trainings)

\* Faulty variant: a person with nothing expiring is reported too.
WithPerson_Always(expiring_results, name, expiring_trainings) ==
    Append(expiring_results,
           [name |-> name, expiring_trainings |-> expiring_trainings])

WithPerson(expiring_results, name, expiring_trainings) ==
    IF expiring_trainings # <<>>
    THEN Append(expiring_results,
                [name |-> name, expiring_trainings |-> expiring_trainings])
    ELSE expiring_results

RECURSIVE Task3Loop(_, _, _)
Task3Loop(training_data, p, expiring_results) ==
    IF p > Len(training_data) THEN Return(expiring_results)
    ELSE LET most_recent_completions ==
                 get_most_recent_completions(training_data[p].completions)
         IN  IF most_recent_completions.raises THEN most_recent_completions
             ELSE LET expiring_trainings ==
                          Task3Keys(most_recent_completions.value, 1, <<>>)
                  IN  IF expiring_trainings.raises THEN expiring_trainings
                      ELSE Task3Loop(training_data, p + 1,
                               WithPerson(expiring_results, training_data[p].name,
                                          expiring_trainings.value))

task3(training_data) == Task3Loop(training_data, 1, <<>>)

(***************************************************************************)
(* main: task1, task2, task3 in sequence.  A task writes its file after    *)
(* its loop; an exception raised in the loop ends the run.                 *)
(***************************************************************************)
FileNames == {"task1_output.json", "task2_output.json", "task3_output.json"}

\* Faulty variant: the output file is opened before the loop, so that it
\* exists (empty) when the loop raises.
RunTask1_OpensFirst ==
    /\ pc = "task1"
    /\ LET output == task1(data)
       IN  IF output.raises
           THEN /\ files' = [files EXCEPT !["task1_output.json"] = Some(<<>>)]
                /\ pc' = "raised"
           ELSE /\ files' = [files EXCEPT !["task1_output.json"] = Some(output.value)]
                /\ pc' = "task2"
    /\ UNCHANGED <<data, args, ret>>

RunTask1 ==
    /\ pc = "task1"
    /\ LET output == task1(data)
       IN  IF output.raises
           THEN pc' = "raised" /\ UNCHANGED files
           ELSE /\ files' = [files EXCEPT !["task1_output.json"] = Some(output.value)]
                /\ pc' = "task2"
    /\ UNCHANGED <<data, args, ret>>

RunTask2 ==
    /\ pc = "task2"
    /\ LET training_results == task2(data)
       IN  IF training_results.raises
           THEN pc' = "raised" /\ UNCHANGED files
           ELSE /\ files' = [files EXCEPT
                                ![ "task2_output.json"] = Some(training_results.value)]
                /\ pc' = "task3"
    /\ UNCHANGED <<data, args, ret>>

RunTask3 ==
    /\ pc = "task3"
    /\ LET expiring_results == task3(data)
       IN  IF expiring_results.raises
           THEN pc' = "raised" /\ UNCHANGED files
           ELSE /\ files' = [files EXCEPT
                                !["task3_output.json"] = Some(expiring_results.value)]
                /\ pc' = "done"
    /\ UNCHANGED <<data, args, ret>>

Next == RunTask1 \/ RunTask2 \/ RunTask3

(***************************************************************************)
(* Direct calls of the two helper functions, on arguments of any value.    *)
(***************************************************************************)
CallGetMostRecentCompletions ==
    /\ pc = "get_most_recent_completions"
    /\ ret' = get_most_recent_completions(args[1])
    /\ pc' = "returned"
    /\ UNCHANGED <<data, files, args>>

NextResolve == CallGetMostRecentCompletions

CallCheckExpiry ==
    /\ pc = "check_expiry"
    /\ ret' = check_expiry(args[1], args[2])
    /\ pc' = "returned"
    /\ UNCHANGED <<data, files, args>>

NextExpiry == CallCheckExpiry

(***************************************************************************)
(* Inputs.  A date string is written from its fields, zero-padded          *)
(* (MM/DD/YYYY) or not (M/D/YYYY).                                         *)
(***************************************************************************)
Padded(n) == <<Char(n \div 10), Char(n % 10)>>

Unpadded(n) == IF n < 10 THEN <<Char(n)>> ELSE Padded(n)

Year(y) == Padded(y \div 100) \o Padded(y % 100)

mdY(m, d, y) == Padded(m) \o <<Slash>> \o Padded(d) \o <<Slash>> \o Year(y)

mdY_short(m, d, y) == Unpadded(m) \o <<Slash>> \o Unpadded(d) \o <<Slash>> \o Year(y)

\* The same with the year in the digits of another script, by their zero.
mdY_script(m, d, y, zero) ==
    Padded(m) \o <<Slash>> \o Padded(d) \o <<Slash>>
        \o [i \in 1..4 |-> Year(y)[i] - Char(0) + zero]

ArabicIndicZero == 1632

\* "10/15/2023" with the 5 an Arabic-Indic digit.
mdY_mixed ==
    Padded(10) \o <<Slash, Char(1), ArabicIndicZero + 5, Slash>> \o Year(2023)

\* "2023-07-01"
Ymd_dashed == Padded(20) \o Padded(23) \o <<45>> \o Padded(7) \o <<45>> \o Padded(1)

MaxPersons == 2

MaxCompletions == 2

MaxHistory == 3

PersonName(i) == <<"Ann", "Bob", "Cid", "Dee", "Eve">>[i]

SeqsUpTo(S, n) == UNION {[1..k -> S] : k \in 0..n}

\* The roster of the persons PersonName(1), PersonName(2), ... with the
\* completion lists lists[1], lists[2], ...
Roster(lists) ==
    [i \in DOMAIN lists |-> [name |-> PersonName(i), completions |-> lists[i]]]

NoFiles == [f \in FileNames |-> None]

\* The state after load_data: a roster of up to MaxPersons persons with lists
\* of Core, or of one person with a list of Wide.
InitMain(Core, Wide) ==
    /\ \/ \E n \in 0..MaxPersons : \E lists \in [1..n -> Core] : data = Roster(lists)
       \/ \E list \in Wide : data = Roster(<<list>>)
    /\ pc = "task1"
    /\ files = NoFiles
    /\ args = None
    /\ ret = None

(***************************************************************************)
(* Direct calls of get_most_recent_completions: lists of up to MaxHistory  *)
(* records of two trainings, with two spellings of one date, with and      *)
(* without an expiry, and one record whose timestamp does not parse.       *)
(***************************************************************************)
ResolvePool ==
    {[name |-> n, timestamp |-> t] :
        n \in {"X-Ray Safety", "Fire Safety"},
        t \in {mdY(6, 30, 2023), mdY(7, 1, 2023), mdY_short(7, 1, 2023)}}
    \cup
    {[name |-> n, timestamp |-> t, expires |-> Some(mdY(10, 15, 2023))] :
        n \in {"X-Ray Safety", "Fire Safety"},
        t \in {mdY(6, 30, 2023), mdY(7, 1, 2023), mdY_short(7, 1, 2023)}}
    \cup
    {[name |-> "X-Ray Safety", timestamp |-> mdY(7, 1, 2023), expires |-> None],
     [name |-> "Fire Safety", timestamp |-> mdY_script(7, 2, 2023, ArabicIndicZero)],
     [name |-> "X-Ray Safety", timestamp |-> Ymd_dashed]}

InitResolve ==
    /\ args \in {<<completions>> : completions \in SeqsUpTo(ResolvePool, MaxHistory)}
    /\ pc = "get_most_recent_completions"
    /\ ret = None
    /\ data = <<>>
    /\ files = NoFiles

SpecResolve == InitResolve /\ [][NextResolve]_vars

Max(S) == CHOOSE x \in S : \A y \in S : x >= y

Resolved == pc = "returned" /\ ~ret.raises

\* The records of training T in a completion list, by position.
RecordsOf(completions, T) == {i \in DOMAIN completions : completions[i].name = T}

\* The expiry a record states: None when the field is absent or null.
ExpiryOf(completion) ==
    IF "expires" \in DOMAIN completion THEN completion.expires ELSE None

DateOf(completion) == strptime(completion.timestamp).value

LatestDate(completions, T) ==
    Max({DateOf(completions[i]) : i \in RecordsOf(completions, T)})

\* The positions of the records of T that carry the latest date of T.
LatestOf(completions, T) ==
    LET latest == LatestDate(completions, T)
    IN  {i \in RecordsOf(completions, T) : DateOf(completions[i]) = latest}

NamesIn(completions) == {completions[i].name : i \in DOMAIN completions}

EntriesOf(most_recent, T) == {k \in DOMAIN most_recent : most_recent[k].key = T}

\* C1: every training name of the list has exactly one entry in the result,
\* dated with the latest parsed timestamp among the records of that training,
\* and the result has no entry for a training that is not in the list.
TheoremC1 ==
    Resolved =>
        /\ \A T \in NamesIn(args[1]) :
              /\ Cardinality(EntriesOf(ret.value, T)) = 1
              /\ DictGet(ret.value, T).date = LatestDate(args[1], T)
        /\ DictKeys(ret.value) \subseteq NamesIn(args[1])

\* C1's case: a training with an older record after a newer one, beside
\* another training.
WitnessC1 ==
    /\ Resolved
    /\ \E i, j \in DOMAIN args[1] :
          /\ i < j
          /\ args[1][i].name = args[1][j].name
          /\ DateOf(args[1][i]) > DateOf(args[1][j])
    /\ Cardinality(NamesIn(args[1])) = 2

\* C2 as stated: among the records of a training that tie on its latest date,
\* the result carries the timestamp and expiry of the last one of the list.
OriginalC2 ==
    Resolved =>
        \A T \in NamesIn(args[1]) :
            LET last == args[1][Max(LatestOf(args[1], T))]
            IN  /\ DictGet(ret.value, T).timestamp = last.timestamp
                /\ DictGet(ret.value, T).expires = ExpiryOf(last)

\* C2 amended: among the records of a training that tie on its latest date,
\* the result carries the timestamp and expiry of the first one of the list.
TheoremC2 ==
    Resolved =>
        \A T \in NamesIn(args[1]) :
            LET first == args[1][Min(LatestOf(args[1], T))]
            IN  /\ DictGet(ret.value, T).timestamp = first.timestamp
                /\ DictGet(ret.value, T).expires = ExpiryOf(first)

\* C2's case: two records of one training tie on its latest date and differ
\* in expiry and in the spelling of the timestamp.
WitnessC2 ==
    /\ Resolved
    /\ \E T \in NamesIn(args[1]) :
          \E i, j \in LatestOf(args[1], T) :
              /\ i < j
              /\ ExpiryOf(args[1][i]) # ExpiryOf(args[1][j])
              /\ args[1][i].timestamp # args[1][j].timestamp

\* A resolved mapping turned back into a completion list.
AsCompletions(most_recent) ==
    [k \in DOMAIN most_recent |->
        [name |-> most_recent[k].key,
         timestamp |-> most_recent[k].value.timestamp,
         expires |-> most_recent[k].value.expires]]

OnePerTraining(completions) ==
    \A i, j \in DOMAIN completions :
        completions[i].name = completions[j].name => i = j

\* C9: a list with one record per training resolves to one entry per record,
\* with the record's name, timestamp and expiry; and resolving the resolved
\* mapping again returns the same mapping.
TheoremC9 ==
    Resolved =>
        /\ OnePerTraining(args[1]) =>
              /\ Len(ret.value) = Len(args[1])
              /\ \A i \in DOMAIN args[1] :
                    /\ DictHas(ret.value, args[1][i].name)
                    /\ DictGet(ret.value, args[1][i].name).timestamp
                           = args[1][i].timestamp
                    /\ DictGet(ret.value, args[1][i].name).expires
                           = ExpiryOf(args[1][i])
        /\ LET again == get_most_recent_completions(AsCompletions(ret.value))
           IN  ~again.raises /\ again.value = ret.value

\* C9's case: two records of different trainings, one with an expiry.
WitnessC9 ==
    /\ Resolved
    /\ OnePerTraining(args[1])
    /\ Len(args[1]) = 2
    /\ \E i \in DOMAIN args[1] : ExpiryOf(args[1][i]) # None

Permuted(completions) ==
    {[i \in DOMAIN completions |-> completions[f[i]]] :
        f \in Permutations(DOMAIN completions)}

DistinctDates(completions) ==
    \A i, j \in DOMAIN completions :
        (i # j /\ completions[i].name = completions[j].name)
            => DateOf(completions[i]) # DateOf(completions[j])

Alone(completions) == <<[name |-> PersonName(1), completions |-> completions]>>

\* The (person, training, status) triples of a task3 result.
Triples(expiring_results) ==
    UNION {{<<expiring_results[p].name, e.training, e.status>> :
               e \in ToSet(expiring_results[p].expiring_trainings)} :
           p \in DOMAIN expiring_results}

\* C10: when no two records of one training carry the same date, every
\* permutation of the list resolves to the same mapping, and task3's triples
\* and task1's counts for a person with that list are those of the permutation.
TheoremC10 ==
    (Resolved /\ DistinctDates(args[1])) =>
        \A permutation \in Permuted(args[1]) :
            /\ ~get_most_recent_completions(permutation).raises
            /\ ToSet(get_most_recent_completions(permutation).value)
                   = ToSet(ret.value)
            /\ Triples(task3(Alone(permutation)).value)
                   = Triples(task3(Alone(args[1])).value)
            /\ ToSet(task1(Alone(permutation)).value)
                   = ToSet(task1(Alone(args[1])).value)

\* C10's case: three records of dates all different for one training, the
\* latest neither first nor last, its expiry within the window of task3.
WitnessC10 ==
    /\ Resolved
    /\ DistinctDates(args[1])
    /\ Len(args[1]) = 3
    /\ args[1][1].name = args[1][2].name
    /\ args[1][3].name # args[1][2].name
    /\ DateOf(args[1][1]) < DateOf(args[1][2])
    /\ ExpiryOf(args[1][1]) # ExpiryOf(args[1][2])
    /\ Triples(task3(Alone(args[1])).value) # {}

(***************************************************************************)
(* Direct calls of check_expiry: every day number 1..31 of September to    *)
(* November 2023 as the expiry (among them 09/31 and 11/31, which name no  *)
(* date), an unpadded spelling, spellings in the digits of another script, *)
(* the last days of year 9999, the empty string and None, against four     *)
(* reference dates of 2023 and three of the last month of year 9999.       *)
(***************************************************************************)
ExpiryArgs ==
    {Some(mdY(m, d, 2023)) : m \in 9..11, d \in 1..31}
    \cup {Some(mdY(12, d, MAXYEAR)) : d \in {1, 2, 15, 31}}
    \cup {Some(mdY_short(10, 1, 2023)), Some(mdY_script(10, 15, 2023, ArabicIndicZero)),
          Some(mdY_mixed), Some(<<>>), None}

ReferenceArgs ==
    {reference_date, ymd2ord(2023, 9, 1), ymd2ord(2023, 9, 30), ymd2ord(2023, 10, 2),
     ymd2ord(MAXYEAR, 12, 1), ymd2ord(MAXYEAR, 12, 2), ymd2ord(MAXYEAR, 12, 15)}

InitExpiry ==
    /\ args \in {<<e, r>> : e \in ExpiryArgs, r \in ReferenceArgs}
    /\ pc = "check_expiry"
    /\ ret = None
    /\ data = <<>>
    /\ files = NoFiles

SpecExpiry == InitExpiry /\ [][NextExpiry]_vars

IsDate(expiration_date) ==
    expiration_date # None /\ ~strptime(expiration_date[1]).raises

\* C5 as stated: for every expiry date e and reference date r, check_expiry
\* returns 'expired' exactly when e < r, 'expires soon' exactly when
\* r <= e <= r + 30 days, and None otherwise.
OriginalC5 ==
    (pc = "returned" /\ IsDate(args[1])) =>
        LET e == strptime(args[1][1]).value
            r == args[2]
        IN  /\ ~ret.raises
            /\ ret.value \in {None, Some("expired"), Some("expires soon")}
            /\ ret.value = Some("expired") <=> e < r
            /\ ret.value = Some("expires soon") <=> (r <= e /\ e <= r + 30)
            /\ ret.value = None <=> e > r + 30

\* C5: for an expiry date e and a reference date r up to 9999-12-01,
\* check_expiry returns 'expired' exactly when e < r, 'expires soon' exactly
\* when r <= e <= r + 30 days, and None otherwise; with r = 2023-10-01,
\* 09/30/2023 is expired, 10/01/2023 and 10/31/2023 expire soon and 11/01/2023
\* has no status.  For a later r the call returns 'expired' when e < r and
\* raises OverflowError otherwise.
TheoremC5 ==
    (pc = "returned" /\ IsDate(args[1])) =>
        LET e == strptime(args[1][1]).value
            r == args[2]
        IN  /\ r + 30 <= MaxOrdinal =>
                  /\ ~ret.raises
                  /\ ret.value \in {None, Some("expired"), Some("expires soon")}
                  /\ ret.value = Some("expired") <=> e < r
                  /\ ret.value = Some("expires soon") <=> (r <= e /\ e <= r + 30)
                  /\ ret.value = None <=> e > r + 30
            /\ r + 30 > MaxOrdinal =>
                  IF e < r THEN ret = Return(Some("expired")) ELSE ret = OverflowError
            /\ r = ymd2ord(2023, 10, 1) =>
                  /\ args[1] = Some(mdY(9, 30, 2023)) => ret.value = Some("expired")
                  /\ args[1] = Some(mdY(10, 1, 2023)) => ret.value = Some("expires soon")
                  /\ args[1] = Some(mdY(10, 31, 2023)) => ret.value = Some("expires soon")
                  /\ args[1] = Some(mdY(11, 1, 2023)) => ret.value = None

\* C5's case: the last day of the window, 30 days after 2023-10-01.
WitnessC5 ==
    /\ pc = "returned"
    /\ args = <<Some(mdY(10, 31, 2023)), ymd2ord(2023, 10, 1)>>
    /\ ret.value = Some("expires soon")

(***************************************************************************)
(* Runs of main on rosters of up to MaxPersons persons with up to          *)
(* MaxCompletions records each.  The lists are drawn over a core pool of   *)
(* records for every person, or over a wider pool for one person alone.    *)
(***************************************************************************)
Written(f) == files[f] # None

Output(f) == files[f][1]

Persons == DOMAIN data

\* Runs for task1: two dates of one training and another training; for one
\* person alone also an unpadded date and a third training.
CountCorePool ==
    {[name |-> "X-Ray Safety", timestamp |-> mdY(6, 30, 2023)],
     [name |-> "X-Ray Safety", timestamp |-> mdY(7, 1, 2023)],
     [name |-> "Fire Safety", timestamp |-> mdY(7, 1, 2023)]}

CountWidePool ==
    CountCorePool \cup
    {[name |-> "Fire Safety", timestamp |-> mdY_short(6, 30, 2023)],
     [name |-> "Laboratory Safety Training", timestamp |-> mdY(6, 30, 2024),
      expires |-> Some(mdY(6, 30, 2025))]}

CountCoreLists == SeqsUpTo(CountCorePool, MaxCompletions)

CountWideLists == SeqsUpTo(CountWidePool, MaxCompletions)

InitCount == InitMain(CountCoreLists, CountWideLists)

SpecCount == InitCount /\ [][Next]_vars

HasTraining(p, T) == \E i \in DOMAIN data[p].completions : data[p].completions[i].name = T

AllTrainings == UNION {NamesIn(data[p].completions) : p \in Persons}

\* C3: task1 emits, for every training, the number of persons with at least
\* one record of it (a person with several records of it counts once), one
\* entry per training, and no entry with a count of zero.
TheoremC3 ==
    Written("task1_output.json") =>
        LET output == Output("task1_output.json")
        IN  /\ {output[k].training : k \in DOMAIN output} = AllTrainings
            /\ \A k, l \in DOMAIN output :
                  output[k].training = output[l].training => k = l
            /\ \A k \in DOMAIN output :
                  /\ output[k].count
                         = Cardinality({p \in Persons : HasTraining(p, output[k].training)})
                  /\ output[k].count > 0

\* C3's case: two persons with a training, one of them with two records of it,
\* and a second training that only one of them has.
WitnessC3 ==
    /\ Written("task1_output.json")
    /\ Len(data) = 2
    /\ Cardinality(RecordsOf(data[1].completions, "X-Ray Safety")) = 2
    /\ HasTraining(2, "X-Ray Safety")
    /\ HasTraining(2, "Fire Safety")
    /\ Output("task1_output.json")
           = <<[training |-> "X-Ray Safety", count |-> 2],
               [training |-> "Fire Safety", count |-> 1]>>

\* Runs for task2: the four dates around fiscal year 2024 for a relevant
\* training (one more with the year in the digits of another script), a
\* second relevant training and a training that is not relevant.
FiscalCorePool ==
    {[name |-> "X-Ray Safety", timestamp |-> mdY(6, 30, 2023)],
     [name |-> "X-Ray Safety", timestamp |-> mdY(6, 30, 2024)],
     [name |-> "Fire Safety", timestamp |-> mdY(7, 1, 2023)]}

FiscalWidePool ==
    {[name |-> "X-Ray Safety", timestamp |-> t] :
        t \in {mdY(6, 30, 2023), mdY(7, 1, 2023), mdY(6, 30, 2024), mdY(7, 1, 2024)}}
    \cup
    {[name |-> "Electrical Safety for Labs", timestamp |-> mdY_short(6, 30, 2024)],
     [name |-> "Laboratory Safety Training",
      timestamp |-> mdY_script(7, 1, 2023, ArabicIndicZero)],
     [name |-> "Fire Safety", timestamp |-> mdY(7, 1, 2023)]}

FiscalCoreLists == SeqsUpTo(FiscalCorePool, MaxCompletions)

FiscalWideLists == SeqsUpTo(FiscalWidePool, MaxCompletions)

InitFiscal == InitMain(FiscalCoreLists, FiscalWideLists)

SpecFiscal == InitFiscal /\ [][Next]_vars

\* Person p's most recent completion of T is dated from July 1 of year - 1
\* to June 30 of year.
CompletedIn(p, T, year) ==
    /\ HasTraining(p, T)
    /\ ymd2ord(year - 1, 7, 1) <= LatestDate(data[p].completions, T)
    /\ LatestDate(data[p].completions, T) <= ymd2ord(year, 6, 30)

RECURSIVE NamesFrom(_, _, _)
NamesFrom(p, T, year) ==
    IF p > Len(data) THEN <<>>
    ELSE (IF CompletedIn(p, T, year) THEN <<data[p].name>> ELSE <<>>)
             \o NamesFrom(p + 1, T, year)

OnlyRecord(p, T, timestamp) ==
    data[p].completions = <<[name |-> T, timestamp |-> timestamp]>>

\* C4: the task2 result has exactly the three requested trainings as keys,
\* and the list of each is, in roster order, the names of the persons whose
\* most recent completion of it is dated 2023-07-01 to 2024-06-30: a single
\* completion of 07/01/2023 or 06/30/2024 is listed, one of 06/30/2023 or
\* 07/01/2024 is not, and no other training adds anything.
TheoremC4 ==
    Written("task2_output.json") =>
        LET training_results == Output("task2_output.json")
        IN  /\ [k \in DOMAIN training_results |-> training_results[k].key]
                   = <<"Electrical Safety for Labs", "X-Ray Safety",
                       "Laboratory Safety Training">>
            /\ \A k \in DOMAIN training_results :
                  training_results[k].value
                      = NamesFrom(1, training_results[k].key, 2024)
            /\ \A p \in Persons :
                  LET listed == data[p].name
                                    \in ToSet(DictGet(training_results, "X-Ray Safety"))
                  IN  /\ OnlyRecord(p, "X-Ray Safety", mdY(6, 30, 2023)) => ~listed
                      /\ OnlyRecord(p, "X-Ray Safety", mdY(7, 1, 2023)) => listed
                      /\ OnlyRecord(p, "X-Ray Safety", mdY(6, 30, 2024)) => listed
                      /\ OnlyRecord(p, "X-Ray Safety", mdY(7, 1, 2024)) => ~listed

\* C4's case: two persons listed in roster order, the first by a completion
\* on the last day of the fiscal year that supersedes one before its first
\* day, the second beside a training that is not requested.
WitnessC4 ==
    /\ Written("task2_output.json")
    /\ Len(data) = 2
    /\ data[1].completions
           = <<[name |-> "X-Ray Safety", timestamp |-> mdY(6, 30, 2024)],
               [name |-> "X-Ray Safety", timestamp |-> mdY(6, 30, 2023)]>>
    /\ HasTraining(2, "Fire Safety")
    /\ Output("task2_output.json")
           = <<[key |-> "Electrical Safety for Labs", value |-> <<>>],
               [key |-> "X-Ray Safety", value |-> <<"Ann", "Bob">>],
               [key |-> "Laboratory Safety Training", value |-> <<>>]>>

\* Runs for task3: expiries before, at both ends of and after the 30 day
\* window of 2023-10-01 (one with a digit of another script), and records
\* without an expiry (absent, null, empty).
ExpiringCorePool ==
    {[name |-> "X-Ray Safety", timestamp |-> mdY(6, 30, 2023),
      expires |-> Some(mdY(9, 30, 2023))],
     [name |-> "X-Ray Safety", timestamp |-> mdY(7, 1, 2023)],
     [name |-> "Fire Safety", timestamp |-> mdY(6, 30, 2023),
      expires |-> Some(mdY(10, 31, 2023))]}

ExpiringWidePool ==
    ExpiringCorePool \cup
    {[name |-> "X-Ray Safety", timestamp |-> mdY(7, 1, 2023), expires |-> None],
     [name |-> "Fire Safety", timestamp |-> mdY(6, 30, 2023),
      expires |-> Some(mdY(10, 1, 2023))],
     [name |-> "Fire Safety", timestamp |-> mdY(7, 1, 2023),
      expires |-> Some(mdY(11, 1, 2023))],
     [name |-> "X-Ray Safety", timestamp |-> mdY(7, 1, 2023),
      expires |-> Some(mdY_mixed)],
     [name |-> "Fire Safety", timestamp |-> mdY(7, 1, 2023), expires |-> Some(<<>>)]}

ExpiringCoreLists == SeqsUpTo(ExpiringCorePool, MaxCompletions)

ExpiringWideLists == SeqsUpTo(ExpiringWidePool, MaxCompletions)

InitExpiring == InitMain(ExpiringCoreLists, ExpiringWideLists)

SpecExpiring == InitExpiring /\ [][Next]_vars

\* Person p's most recent completion of T: the first record of T in the list
\* that carries the latest date of T.
MostRecent(p, T) ==
    data[p].completions[Min(LatestOf(data[p].completions, T))]

\* The status of an expiry relative to 2023-10-01, if it has one.
HasStatus(expiry, status) ==
    /\ IsDate(expiry)
    /\ LET e == strptime(expiry[1]).value
           r == ymd2ord(2023, 10, 1)
       IN  \/ status = "expired" /\ e < r
           \/ status = "expires soon" /\ r <= e /\ e <= r + 30

Classified(p) ==
    UNION {LET expiry == ExpiryOf(MostRecent(p, T))
           IN  {[training |-> T, status |-> status] :
                   status \in {s \in {"expired", "expires soon"} : HasStatus(expiry, s)}} :
           T \in NamesIn(data[p].completions)}

\* C6: a person is in the task3 result exactly when one of their most recent
\* completions has an expiry that is expired or expires soon; the person's
\* list holds exactly those trainings, each once with its status; no list is
\* empty; and no listed training's most recent completion lacks an expiry.
TheoremC6 ==
    Written("task3_output.json") =>
        LET expiring_results == Output("task3_output.json")
        IN  /\ \A p \in Persons :
                  (\E k \in DOMAIN expiring_results :
                       expiring_results[k].name = data[p].name)
                      <=> Classified(p) # {}
            /\ \A k, l \in DOMAIN expiring_results :
                  expiring_results[k].name = expiring_results[l].name => k = l
            /\ \A k \in DOMAIN expiring_results :
                  \E p \in Persons :
                      LET expiring_trainings == expiring_results[k].expiring_trainings
                      IN  /\ expiring_results[k].name = data[p].name
                          /\ ToSet(expiring_trainings) = Classified(p)
                          /\ Len(expiring_trainings) = Cardinality(ToSet(expiring_trainings))
                          /\ expiring_trainings # <<>>
                          /\ \A e \in ToSet(expiring_trainings) :
                                ExpiryOf(MostRecent(p, e.training)) # None

\* C6's case: one person with an expired and a soon expiring training, and a
\* second person left out because the expired completion is superseded by one
\* without an expiry.
WitnessC6 ==
    /\ Written("task3_output.json")
    /\ Len(data) = 2
    /\ data[2].completions
           = <<[name |-> "X-Ray Safety", timestamp |-> mdY(6, 30, 2023),
                expires |-> Some(mdY(9, 30, 2023))],
               [name |-> "X-Ray Safety", timestamp |-> mdY(7, 1, 2023)]>>
    /\ Output("task3_output.json")
           = <<[name |-> "Ann",
                expiring_trainings |->
                    <<[training |-> "X-Ray Safety", status |-> "expired"],
                      [training |-> "Fire Safety", status |-> "expires soon"]>>]>>

\* Runs on malformed dates: a timestamp in another format, an expiry that
\* names no date (11/31), written in another format or empty, on records that
\* are or are not superseded by a later completion of the same training; and
\* a record whose dates are written with digits of another script.
MalformedCorePool ==
    {[name |-> "X-Ray Safety", timestamp |-> mdY(6, 30, 2023),
      expires |-> Some(mdY(11, 31, 2023))],
     [name |-> "X-Ray Safety", timestamp |-> mdY(7, 1, 2023)],
     [name |-> "Fire Safety", timestamp |-> Ymd_dashed]}

MalformedWidePool ==
    {[name |-> "X-Ray Safety", timestamp |-> t, expires |-> e] :
        t \in {mdY(6, 30, 2023), mdY(7, 1, 2023)},
        e \in {Some(mdY(9, 30, 2023)), Some(Ymd_dashed), Some(<<>>)}}
    \cup
    {[name |-> "Fire Safety", timestamp |-> mdY_script(7, 1, 2023, ArabicIndicZero),
      expires |-> Some(mdY_mixed)]}
    \cup MalformedCorePool

MalformedCoreLists == SeqsUpTo(MalformedCorePool, MaxCompletions)

MalformedWideLists == SeqsUpTo(MalformedWidePool, MaxCompletions)

InitMalformed == InitMain(MalformedCoreLists, MalformedWideLists)

Spec == InitMalformed /\ [][Next]_vars

Records == UNION {{<<p, i>> : i \in DOMAIN data[p].completions} : p \in Persons}

Record(r) == data[r[1]].completions[r[2]]

Malformed(string) == strptime(string).raises

MalformedTimestamp == \E r \in Records : Malformed(Record(r).timestamp)

\* Some record has an expiry string that does not parse (an empty string
\* counts as no expiry).
MalformedExpiry ==
    \E r \in Records :
        LET expiry == ExpiryOf(Record(r))
        IN  expiry # None /\ expiry[1] # <<>> /\ Malformed(expiry[1])

\* A person's most recent completion of a training has a non-empty expiry
\* that does not parse (stated for rosters whose timestamps all parse).
MalformedKeptExpiry ==
    \E p \in Persons :
        \E T \in NamesIn(data[p].completions) :
            LET expiry == ExpiryOf(MostRecent(p, T))
            IN  expiry # None /\ expiry[1] # <<>> /\ Malformed(expiry[1])

\* The files written are those of the reports before the one that raised.
NoReportFromTheRaisingOne ==
    /\ ~Written("task3_output.json")
    /\ Written("task2_output.json") => Written("task1_output.json")

\* C7 as stated: with a timestamp or an expiry string that does not parse on
\* any record, the run never completes, and when it has raised, the report
\* that raised and the later ones are not written.
OriginalC7 ==
    (MalformedTimestamp \/ MalformedExpiry) =>
        /\ pc # "done"
        /\ ~Written("task3_output.json")
        /\ pc = "raised" => NoReportFromTheRaisingOne

\* C7 amended: the run raises and aborts, writing neither the report that
\* raised nor a later one, exactly when a timestamp of any record does not
\* parse or the non-empty expiry of a person's most recent completion of a
\* training does not parse; an unparseable timestamp leaves no report at all.
TheoremC7 ==
    LET fatal == MalformedTimestamp \/ MalformedKeptExpiry
    IN  /\ fatal => (pc # "done" /\ ~Written("task3_output.json"))
        /\ MalformedTimestamp => \A f \in FileNames : ~Written(f)
        /\ pc = "raised" => (fatal /\ NoReportFromTheRaisingOne)

\* C7's case: the second person's only completion of a training has an expiry
\* that names no date; the run raised in task3, after two reports.
WitnessC7 ==
    /\ pc = "raised"
    /\ Written("task1_output.json")
    /\ Written("task2_output.json")
    /\ Len(data) = 2
    /\ data[1].completions
           = <<[name |-> "X-Ray Safety", timestamp |-> mdY(7, 1, 2023)]>>
    /\ data[2].completions
           = <<[name |-> "X-Ray Safety", timestamp |-> mdY(6, 30, 2023),
                expires |-> Some(mdY(11, 31, 2023))]>>

\* C8: when a timestamp of any record of any person does not parse, the run
\* fails in task1 and none of the three output files is ever written.
TheoremC8 ==
    MalformedTimestamp =>
        /\ \A f \in FileNames : ~Written(f)
        /\ pc \in {"task1", "raised"}

\* C8's case: the run has raised on the last record of the last person, after
\* a first person whose records all parse.
WitnessC8 ==
    /\ pc = "raised"
    /\ Len(data) = 2
    /\ data[1].completions
           = <<[name |-> "X-Ray Safety", timestamp |-> mdY(7, 1, 2023)]>>
    /\ data[2].completions
           = <<[name |-> "X-Ray Safety", timestamp |-> mdY(7, 1, 2023)],
               [name |-> "Fire Safety", timestamp |-> Ymd_dashed]>>

=============================================================================
